---- MODULE Spec2Model ----
(***************************************************************************)
(* Job leasing and main loop of the GPU render worker                      *)
(* (production-pipeline/cloud-infrastructure/cloud_worker.py).             *)
(*                                                                         *)
(* Each worker process runs two threads that share the GCSJobLeaser        *)
(* object: the main thread (GPUWorker.run) and the daemon lease-renewal    *)
(* thread (GCSJobLeaser.start_lease_renewal.renewal_loop).  Workers share  *)
(* only the object store.  One action is one store operation, or one read  *)
(* of the clock, together with the local statements around it.             *)
(*                                                                         *)
(* The process is the one main() builds (lines 455-456):                   *)
(* GPUWorker(job_leaser), whose __init__ (203-210) sets neither            *)
(* self.bucket nor self.client.  Every render_video_job call therefore     *)
(* raises AttributeError at line 282, before any store operation: lines    *)
(* 283-360 and the status write of lines 366-372 are never executed, and   *)
(* nothing calls run_ffmpeg_with_nvenc or can_add_parallel_process.        *)
(***************************************************************************)
EXTENDS Integers, Sequences, FiniteSets, TLC

\* ---------------------------------------------------------------- bounds
\* worker processes and job ids that exist at all
NumWorkers == 2
NumJobs == 2
\* jobs submitted in the scenarios that also draw store errors, signals or
\* a crash
SoloJobs == 1
\* config.json "total_questions" of every job
TotalUnits == 2
\* store operations that may raise (transient I/O errors) in one behaviour
MaxFaults == 1
\* the clock advances in steps of LEASE_RENEWAL_INTERVAL, this many times
MaxTicks == 3

\* ------------------------------------------------------ program constants
LEASE_RENEWAL_INTERVAL == 60

Workers == 1..NumWorkers
Jobs == 1..NumJobs
Units == 0..(TotalUnits - 1)
Threads == {"main", "renew"}

\* self.current_job = None
NoJob == 0
\* no lease.lock object at the job's lease path
NoLease == [worker_id |-> 0, expires_at |-> 0]
\* status.json of a job nobody has claimed
PendingRecord == [status |-> "pending", worker_id |-> 0]
\* no status.json: the job id was never submitted
AbsentRecord == [status |-> "absent", worker_id |-> 0]
\* the last render_video_job call of a worker: none is over
NoExit == [why |-> "none", job |-> NoJob]
\* claim_job was not called on the job in this pass of run()'s for loop
NoClaim == [res |-> "none", expired |-> FALSE, fault |-> FALSE]
\* no JobInfo is held, so no metadata dict
NoMetadata == [status |-> "absent", worker_id |-> 0]
\* neither thread of the worker is inside release_job
NoRelease == [main |-> NoJob, renew |-> NoJob]
\* neither thread of the worker has built a lease_data dict
NoData == [main |-> 0, renew |-> 0]

VARIABLES
    \* ---- object store
    lease,        \* jobs/{channel}/{job_id}/lease.lock
    status,       \* jobs/{channel}/{job_id}/status.json
    clips,        \* indices i with jobs/.../clips/clip_{i:03d}.mp4 in the store
    \* ---- one worker process
    pc,           \* pc[w].main, pc[w].renew: position of each thread
    ret,          \* where the main thread's release_job call returns to
    current_job,  \* GCSJobLeaser.current_job
    metadata,     \* the keys status and worker_id of current_job.metadata
    cand,         \* available_jobs still to try in run()'s for loop
    job,          \* render_video_job's argument
    rjob,         \* job whose lease_blob renew_lease has built
    sig,          \* GPUWorker.shutdown_event
    lshut,        \* GCSJobLeaser.shutdown_event
    scanAt,       \* job whose status.json scan_for_jobs downloads next
    relJob,       \* relJob[w][t]: job whose blob release_job of thread t has built
    lease_data,   \* lease_data[w][t]: "expires_at" of the lease_data dict that
                  \* claim_job (main) or renew_lease (renew) has built
    \* ---- environment
    faults,       \* store errors still to come
    now,          \* datetime.utcnow(), in seconds
    \* ---- history, read by no action
    passRendered, \* units rendered by the current render_video_job call
    exitWhy,      \* how the last render_video_job call of the worker ended
    released,     \* a release_job of the job completed and nobody claimed since
    lastClaim,    \* lastClaim[w][j]: the worker's claim_job call on job j in this pass
    sigJob        \* job the worker held when its shutdown signal arrived

\* ---- autoscaler process (gcs-video-automations-v1-backup/cloud-infrastructure/autoscaler.py)
VARIABLES
    last_scale_up,    \* IntelligentAutoscaler.last_scale_up, NoTime for None
    last_scale_down,  \* IntelligentAutoscaler.last_scale_down, NoTime for None
    scaling_history,  \* IntelligentAutoscaler.scaling_history
    mig_size,         \* size of the managed instance group
    records,          \* objects under jobs/ that get_job_counts lists, in listing order
    outage,           \* gcloud commands that fail at present
    cyclesLeft,       \* cycles of run_continuous before the process is interrupted
    ncycles,          \* history: cycles of run_continuous completed
    run,              \* the run_scaling_cycle in progress: its position and locals
    cycle,            \* history: what the last run_scaling_cycle read, decided and did
    call              \* history: the last call of a function of the autoscaler alone

\* ---- the storage library of the build
VARIABLES
    acceptsKeyword     \* whether its Blob.delete accepts the keyword ignore_generation

\* the locals of the calls in progress
callVars == <<scanAt, relJob, lease_data>>

autoVars == <<last_scale_up, last_scale_down, scaling_history, mig_size, records,
              outage, cyclesLeft, ncycles, run, cycle, call>>

storeVars == <<lease, status, clips>>
histVars == <<passRendered, exitWhy, released, lastClaim, sigJob>>

vars == <<storeVars, pc, ret, current_job, metadata, cand, job, rjob, sig, lshut,
          acceptsKeyword, autoVars, callVars, faults, now, histVars>>

\* ---- the autoscaler before it has done anything
\* self.last_scale_up / self.last_scale_down = None
NoTime == -1
\* no scaling cycle was run, no function called
NoCycle == [step |-> "sleep", pending |-> 0, util |-> 0, current |-> 0,
            at |-> NoTime, lsu |-> NoTime, lsd |-> NoTime, desired |-> 0,
            act |-> FALSE, current_size |-> 0, issued |-> FALSE,
            size |-> 0, success |-> FALSE]
NoCall == [fn |-> "none"]

\* no autoscaler process runs
NoAutoscaler ==
    /\ last_scale_up = NoTime
    /\ last_scale_down = NoTime
    /\ scaling_history = <<>>
    /\ mig_size = 0
    /\ records = <<>>
    /\ outage = {}
    /\ cyclesLeft = 0
    /\ ncycles = 0
    /\ run = NoCycle
    /\ cycle = NoCycle
    /\ call = NoCall

\* ------------------------------------------------------------- helpers
\* expires_at written by claim_job and renew_lease
LeaseExpiry(t) == t + LEASE_RENEWAL_INTERVAL * 2

\* the process is running: daemon threads die with the main thread
Alive(w) == pc[w].main \notin {"done", "crashed"}

Goto(w, t, loc) == pc' = [pc EXCEPT ![w][t] = loc]

\* the first job from j on whose status.json list_blobs yields (name order);
\* a job id that was never submitted has none
RECURSIVE ListedFrom(_)
ListedFrom(j) ==
    IF j > NumJobs THEN NoJob
    ELSE IF status[j].status # "absent" THEN j
    ELSE ListedFrom(j + 1)

\* the precondition if_generation_match=0 left out of the upload
CreateAlways(j) == TRUE

\* upload_from_string(..., if_generation_match=0): the create succeeds only
\* when no object is at the lease path; an existing lease is never read, so
\* its expires_at plays no part
CreateAllowed(j) == lease[j] = NoLease

\* the lease a call of w on job j finds is past its expires_at and was
\* written by another worker, which is running and still holds the job
ExpiredOther(w, j) ==
    /\ lease[j] # NoLease
    /\ lease[j].worker_id # w
    /\ lease[j].expires_at < now
    /\ Alive(lease[j].worker_id)
    /\ current_job[lease[j].worker_id] = j

\* ------------------------------------------------------------- initial state
TypeInit ==
    /\ lease = [j \in Jobs |-> NoLease]
    /\ ret = [w \in Workers |-> "finally"]
    /\ current_job = [w \in Workers |-> NoJob]
    /\ metadata = [w \in Workers |-> NoMetadata]
    /\ cand = [w \in Workers |-> <<>>]
    /\ job = [w \in Workers |-> NoJob]
    /\ rjob = [w \in Workers |-> NoJob]
    /\ sig = [w \in Workers |-> FALSE]
    /\ lshut = [w \in Workers |-> FALSE]
    /\ now = 0
    /\ passRendered = [w \in Workers |-> {}]
    /\ exitWhy = [w \in Workers |-> NoExit]
    /\ released = [j \in Jobs |-> FALSE]
    /\ lastClaim = [w \in Workers |-> [j \in Jobs |-> NoClaim]]
    /\ sigJob = [w \in Workers |-> NoJob]
    /\ scanAt = [w \in Workers |-> NoJob]
    /\ relJob = [w \in Workers |-> NoRelease]
    /\ lease_data = [w \in Workers |-> NoData]

\* nw worker processes are started by main() (lines 445-464), nj jobs are
\* submitted and pending, the store raises up to nf times.  The storage
\* library is not part of the repository: either build of it may be installed.
Scenario(nw, nj, nf) ==
    /\ TypeInit
    /\ pc = [w \in Workers |-> IF w <= nw
                                THEN [main |-> "start", renew |-> "off"]
                                ELSE [main |-> "done", renew |-> "r_done"]]
    /\ status = [j \in Jobs |-> IF j <= nj THEN PendingRecord ELSE AbsentRecord]
    /\ acceptsKeyword \in BOOLEAN
    /\ faults = nf

\* jobs are submitted with no clip in the store
NoClips == clips = [j \in Jobs |-> {}]

Init == Scenario(NumWorkers, SoloJobs, MaxFaults) /\ NoClips /\ NoAutoscaler

\* ------------------------------------------------------------- GPUWorker.run
\* run(), line 382: start the renewal thread, enter the loop
Start(w) ==
    /\ pc[w].main = "start"
    /\ pc' = [pc EXCEPT ![w] = [main |-> "loop", renew |-> "r_loop"]]
    /\ UNCHANGED <<storeVars, ret, current_job, metadata, cand, job, rjob,
                   sig, lshut, acceptsKeyword, autoVars, callVars, faults, now,
                   histVars>>

\* lines 384-391 and scan_for_jobs up to its list_blobs (65): leave the loop
\* once the shutdown event is set; with a job held go on to render it
\* (397-398); otherwise list the status records.  A failing list_blobs makes
\* scan_for_jobs return the empty list (84-86).  cleanup_completed_processes
\* (387) finds active_processes empty.
LoopHead(w) ==
    /\ pc[w].main = "loop"
    /\ \/ /\ sig[w]
          /\ Goto(w, "main", "shutdown")
          /\ UNCHANGED <<cand, job, faults, scanAt>>
       \/ /\ ~sig[w]
          /\ current_job[w] # NoJob
          /\ job' = [job EXCEPT ![w] = current_job[w]]
          /\ Goto(w, "main", "render")
          /\ UNCHANGED <<cand, faults, scanAt>>
       \/ /\ ~sig[w]
          /\ current_job[w] = NoJob
          /\ cand' = [cand EXCEPT ![w] = <<>>]
          /\ scanAt' = [scanAt EXCEPT ![w] = ListedFrom(1)]
          /\ Goto(w, "main", IF ListedFrom(1) = NoJob THEN "claim" ELSE "scan")
          /\ UNCHANGED <<job, faults>>
       \/ /\ ~sig[w]
          /\ current_job[w] = NoJob
          /\ faults > 0
          /\ faults' = faults - 1
          /\ cand' = [cand EXCEPT ![w] = <<>>]
          /\ Goto(w, "main", "claim")
          /\ UNCHANGED <<job, scanAt>>
    /\ UNCHANGED <<storeVars, ret, current_job, metadata, rjob, sig, lshut,
                   acceptsKeyword, autoVars, relJob, lease_data, now, histVars>>

\* scan_for_jobs, lines 66-83, for one listed status.json: download it and
\* keep the job when it says pending.  A failing download leaves the job out
\* (82-83).  After the last one run() starts its for loop (392).
ScanRecord(w) ==
    /\ pc[w].main = "scan"
    /\ LET k == scanAt[w]
           next == ListedFrom(k + 1)
       IN
       /\ \/ /\ cand' = [cand EXCEPT ![w] =
                          IF status[k].status = "pending" THEN Append(@, k) ELSE @]
             /\ UNCHANGED faults
          \/ /\ faults > 0
             /\ faults' = faults - 1
             /\ UNCHANGED cand
       /\ scanAt' = [scanAt EXCEPT ![w] = next]
       /\ Goto(w, "main", IF next = NoJob THEN "claim" ELSE "scan")
    /\ UNCHANGED <<storeVars, ret, current_job, metadata, job, rjob, sig, lshut,
                   acceptsKeyword, autoVars, relJob, lease_data, now, histVars>>

\* ------------------------------------------------------------- claim_job
\* the failing call writes status.json as the winning one does
MarkRunning(w, j) == [status |-> "running", worker_id |-> w]

\* lines 124-126: when the create of the lease raises, lines 106-119 are
\* skipped and the handler only logs: status.json of the job stays as it is
KeepRecord(w, j) == status[j]

\* run() line 393 and claim_job, lines 90-99, for the next candidate of the
\* for loop: the call builds lease_data, reading the clock for expires_at
ClaimBuild(w) ==
    /\ pc[w].main = "claim"
    /\ cand[w] # <<>>
    /\ lease_data' = [lease_data EXCEPT ![w].main = LeaseExpiry(now)]
    /\ Goto(w, "main", "claim_lease")
    /\ UNCHANGED <<storeVars, ret, current_job, metadata, cand, job, rjob,
                   sig, lshut, acceptsKeyword, autoVars, scanAt, relJob,
                   faults, now, histVars>>

\* lines 101-104: the create-only upload of lease.lock.  Any exception makes
\* claim_job return False (124-126) and the loop go on to the next candidate.
ClaimLease(w) ==
    /\ pc[w].main = "claim_lease"
    /\ LET j == Head(cand[w]) IN
       \/ /\ CreateAllowed(j)
          /\ lease' = [lease EXCEPT ![j] =
                          [worker_id |-> w, expires_at |-> lease_data[w].main]]
          /\ released' = [released EXCEPT ![j] = FALSE]
          /\ Goto(w, "main", "claim_status")
          /\ UNCHANGED <<status, cand, faults, lastClaim>>
       \/ /\ ~CreateAllowed(j)
          /\ status' = [status EXCEPT ![j] = KeepRecord(w, j)]
          /\ cand' = [cand EXCEPT ![w] = Tail(cand[w])]
          /\ lastClaim' = [lastClaim EXCEPT ![w][j] =
                [res |-> "F", expired |-> ExpiredOther(w, j), fault |-> FALSE]]
          /\ Goto(w, "main", "claim")
          /\ UNCHANGED <<lease, released, faults>>
       \/ /\ faults > 0
          /\ faults' = faults - 1
          /\ status' = [status EXCEPT ![j] = KeepRecord(w, j)]
          /\ cand' = [cand EXCEPT ![w] = Tail(cand[w])]
          /\ lastClaim' = [lastClaim EXCEPT ![w][j] =
                [res |-> "F", expired |-> FALSE, fault |-> TRUE]]
          /\ Goto(w, "main", "claim")
          /\ UNCHANGED <<lease, released>>
    /\ lease_data' = [lease_data EXCEPT ![w].main = 0]
    /\ UNCHANGED <<clips, ret, current_job, metadata, job, rjob, sig, lshut,
                   acceptsKeyword, autoVars, scanAt, relJob, now,
                   passRendered, exitWhy, sigJob>>

\* lines 106-115: the lease was created; overwrite status.json with the
\* candidate's metadata dict, put to running and this worker's id.  If the
\* upload raises, claim_job returns False and the lease object stays.
ClaimStatus(w) ==
    /\ pc[w].main = "claim_status"
    /\ LET j == Head(cand[w]) IN
       \/ /\ status' = [status EXCEPT ![j] = [status |-> "running", worker_id |-> w]]
          /\ Goto(w, "main", "claim_hold")
          /\ UNCHANGED <<cand, faults, lastClaim>>
       \/ /\ faults > 0
          /\ faults' = faults - 1
          /\ cand' = [cand EXCEPT ![w] = Tail(cand[w])]
          /\ lastClaim' = [lastClaim EXCEPT ![w][j] =
                [res |-> "F", expired |-> FALSE, fault |-> TRUE]]
          /\ Goto(w, "main", "claim")
          /\ UNCHANGED status
    /\ UNCHANGED <<lease, clips, ret, current_job, metadata, job, rjob, sig, lshut,
                   acceptsKeyword, autoVars, callVars, now,
                   passRendered, exitWhy, released, sigJob>>

\* lines 117-122 and the break of line 394: the upload has returned; hold
\* the candidate, whose metadata says running, and leave the for loop
ClaimHold(w) ==
    /\ pc[w].main = "claim_hold"
    /\ LET j == Head(cand[w]) IN
       /\ metadata' = [metadata EXCEPT ![w] = [status |-> "running", worker_id |-> w]]
       /\ current_job' = [current_job EXCEPT ![w] = j]
       /\ cand' = [cand EXCEPT ![w] = <<>>]
       /\ lastClaim' = [lastClaim EXCEPT ![w][j] =
             [res |-> "T", expired |-> FALSE, fault |-> FALSE]]
    /\ Goto(w, "main", "claim")
    /\ UNCHANGED <<storeVars, ret, job, rjob, sig, lshut, acceptsKeyword,
                   autoVars, callVars, faults, now,
                   passRendered, exitWhy, released, sigJob>>

\* lines 397-406, once the for loop of lines 392-394 has ended (a claim
\* succeeded or no candidate is left): render the held job, or sleep and loop
Check(w) ==
    /\ pc[w].main = "claim"
    /\ cand[w] = <<>>
    /\ \/ /\ current_job[w] # NoJob
          /\ job' = [job EXCEPT ![w] = current_job[w]]
          /\ Goto(w, "main", "render")
       \/ /\ current_job[w] = NoJob
          /\ Goto(w, "main", "loop")
          /\ UNCHANGED job
    /\ lastClaim' = [lastClaim EXCEPT ![w] = [j \in Jobs |-> NoClaim]]
    /\ UNCHANGED <<storeVars, ret, current_job, metadata, cand, rjob, sig, lshut,
                   acceptsKeyword, autoVars, callVars, faults, now,
                   passRendered, exitWhy, released, sigJob>>

\* ------------------------------------------------------ render_video_job
\* lines 276-375 on the GPUWorker main() builds: line 282 reads self.bucket,
\* which __init__ never set, and raises AttributeError; the handler logs
\* (362), raises the same error at line 365, which line 373 catches, and the
\* call returns False (375) having rendered nothing and written nothing.
\* run() then breaks out of its loop (401-403).
render_video_job(w) ==
    /\ pc[w].main = "render"
    /\ passRendered' = [passRendered EXCEPT ![w] = {}]
    /\ exitWhy' = [exitWhy EXCEPT ![w] = [why |-> "error", job |-> job[w]]]
    /\ job' = [job EXCEPT ![w] = NoJob]
    /\ Goto(w, "main", "shutdown")
    /\ UNCHANGED <<storeVars, ret, current_job, metadata, cand, rjob, sig, lshut,
                   acceptsKeyword, autoVars, callVars, faults, now,
                   released, lastClaim, sigJob>>

\* ------------------------------------------------------------ release_job
\* release_job is called by the main thread (line 196) and by the renewal
\* thread (line 158); t is the calling thread.  No lock is taken: the other
\* thread of the process and the other workers act between any two of its
\* steps.  Every exception is caught at line 189 and ends the call with
\* current_job left as it is.
RetLoc(w, t) == IF t = "main" THEN ret[w] ELSE "r_loop"

\* the call of thread t returns; Goto is left to the caller
Forget(w, t) == relJob' = [relJob EXCEPT ![w][t] = NoJob]

\* lines 166-172: return if no job is held; build the lease blob from the
\* job held now.  Line 173 passes ignore_generation to Blob.delete: a library
\* whose delete has no such parameter raises TypeError before any request is
\* made, and the call ends there.
ReleaseEnter(w, t) ==
    /\ Alive(w)
    /\ pc[w][t] = "rel_enter"
    /\ \/ /\ current_job[w] = NoJob
          /\ Goto(w, t, RetLoc(w, t))
          /\ UNCHANGED relJob
       \/ /\ current_job[w] # NoJob
          /\ ~acceptsKeyword
          /\ Goto(w, t, RetLoc(w, t))
          /\ UNCHANGED relJob
       \/ /\ current_job[w] # NoJob
          /\ acceptsKeyword
          /\ relJob' = [relJob EXCEPT ![w][t] = current_job[w]]
          /\ Goto(w, t, "rel_delete")
    /\ exitWhy' = [exitWhy EXCEPT ![w] = IF t = "main" THEN NoExit ELSE @]
    /\ UNCHANGED <<storeVars, ret, current_job, metadata, cand, job, rjob,
                   sig, lshut, acceptsKeyword, autoVars, scanAt, lease_data,
                   faults, now, passRendered, released, lastClaim, sigJob>>

\* line 173: delete the lease object at the path built, whoever wrote it.
\* A missing object raises NotFound.
ReleaseDelete(w, t) ==
    /\ Alive(w)
    /\ pc[w][t] = "rel_delete"
    /\ LET j == relJob[w][t] IN
       \/ /\ lease[j] = NoLease
          /\ Goto(w, t, RetLoc(w, t))
          /\ Forget(w, t)
          /\ UNCHANGED <<lease, faults>>
       \/ /\ lease[j] # NoLease
          /\ lease' = [lease EXCEPT ![j] = NoLease]
          /\ Goto(w, t, "rel_read")
          /\ UNCHANGED <<relJob, faults>>
       \/ /\ faults > 0
          /\ faults' = faults - 1
          /\ Goto(w, t, RetLoc(w, t))
          /\ Forget(w, t)
          /\ UNCHANGED lease
    /\ UNCHANGED <<status, clips, ret, current_job, metadata, cand, job, rjob,
                   sig, lshut, acceptsKeyword, autoVars, scanAt, lease_data,
                   now, histVars>>

\* release_job marks the job failed
ReleasedAsFailed == "failed"

\* status written by release_job, line 180
ReleasedStatus == "pending"

\* the text release_job serialises at line 184: the metadata dict of the job
\* it releases, which lines 179-183 have just put to pending and no worker.
\* No other statement writes to the dict of a held JobInfo: claim_job (110)
\* updates a candidate of the scan in progress before it is held.
ReleasedRecord == [status |-> ReleasedStatus, worker_id |-> 0]

\* lines 175-183 and the json.dumps of 184: build the status blob from the
\* job held now and put pending and no worker into its metadata;
\* current_job cleared by the other thread meanwhile raises AttributeError
ReleaseRead(w, t) ==
    /\ Alive(w)
    /\ pc[w][t] = "rel_read"
    /\ \/ /\ current_job[w] = NoJob
          /\ Goto(w, t, RetLoc(w, t))
          /\ Forget(w, t)
          /\ UNCHANGED metadata
       \/ /\ current_job[w] # NoJob
          /\ relJob' = [relJob EXCEPT ![w][t] = current_job[w]]
          /\ metadata' = [metadata EXCEPT ![w] = ReleasedRecord]
          /\ Goto(w, t, "rel_status")
    /\ UNCHANGED <<storeVars, ret, current_job, cand, job, rjob, sig, lshut,
                   acceptsKeyword, autoVars, scanAt, lease_data, faults, now,
                   histVars>>

\* line 184: the upload overwrites status.json, whatever it holds by now,
\* with the text serialised before the request
ReleaseStatus(w, t) ==
    /\ Alive(w)
    /\ pc[w][t] = "rel_status"
    /\ LET j == relJob[w][t] IN
       \/ /\ status' = [status EXCEPT ![j] = ReleasedRecord]
          /\ Goto(w, t, "rel_clear")
          /\ UNCHANGED <<relJob, faults>>
       \/ /\ faults > 0
          /\ faults' = faults - 1
          /\ Goto(w, t, RetLoc(w, t))
          /\ Forget(w, t)
          /\ UNCHANGED status
    /\ UNCHANGED <<lease, clips, ret, current_job, metadata, cand, job, rjob,
                   sig, lshut, acceptsKeyword, autoVars, scanAt, lease_data,
                   now, histVars>>

\* lines 186-187: log the job id and forget the job; current_job cleared by
\* the other thread meanwhile raises AttributeError at line 186
ReleaseClear(w, t) ==
    /\ Alive(w)
    /\ pc[w][t] = "rel_clear"
    /\ Goto(w, t, RetLoc(w, t))
    /\ Forget(w, t)
    /\ LET j == relJob[w][t] IN
       \/ /\ current_job[w] = NoJob
          /\ UNCHANGED <<current_job, metadata, released>>
       \/ /\ current_job[w] # NoJob
          /\ current_job' = [current_job EXCEPT ![w] = NoJob]
          /\ metadata' = [metadata EXCEPT ![w] = NoMetadata]
          /\ released' = [released EXCEPT ![j] = TRUE]
    /\ UNCHANGED <<storeVars, ret, cand, job, rjob, sig, lshut, acceptsKeyword,
                   autoVars, scanAt, lease_data, faults, now,
                   passRendered, exitWhy, lastClaim, sigJob>>

\* ------------------------------------------------- shutdown of the process
\* run() line 413, GCSJobLeaser.shutdown (192-198): stop the renewal loop,
\* release a held job; join(timeout=5) waits for nothing this model tracks
Shutdown(w) ==
    /\ pc[w].main = "shutdown"
    /\ lshut' = [lshut EXCEPT ![w] = TRUE]
    /\ ret' = [ret EXCEPT ![w] = "finally"]
    /\ Goto(w, "main", "rel_enter")
    /\ UNCHANGED <<storeVars, current_job, metadata, cand, job, rjob, sig,
                   acceptsKeyword, autoVars, callVars, faults, now, histVars>>

\* main(), lines 462-464: set the shutdown event, shutdown() once more; the
\* process ends when that returns
Finally(w) ==
    /\ pc[w].main = "finally"
    /\ sig' = [sig EXCEPT ![w] = TRUE]
    /\ lshut' = [lshut EXCEPT ![w] = TRUE]
    /\ ret' = [ret EXCEPT ![w] = "exit"]
    /\ Goto(w, "main", "rel_enter")
    /\ UNCHANGED <<storeVars, current_job, metadata, cand, job, rjob,
                   acceptsKeyword, autoVars, callVars, faults, now, histVars>>

\* main() returns (line 467): the process ends and its daemon renewal
\* thread with it, wherever that thread is
Exit(w) ==
    /\ pc[w].main = "exit"
    /\ pc' = [pc EXCEPT ![w] = [main |-> "done", renew |-> "r_done"]]
    /\ current_job' = [current_job EXCEPT ![w] = NoJob]
    /\ metadata' = [metadata EXCEPT ![w] = NoMetadata]
    /\ rjob' = [rjob EXCEPT ![w] = NoJob]
    /\ relJob' = [relJob EXCEPT ![w] = NoRelease]
    /\ lease_data' = [lease_data EXCEPT ![w] = NoData]
    /\ ret' = [ret EXCEPT ![w] = "finally"]
    /\ UNCHANGED <<storeVars, cand, job, sig, lshut, acceptsKeyword, autoVars,
                   scanAt, faults, now, histVars>>

\* _signal_handler, lines 212-215 (SIGTERM, SIGINT)
Signal(w) ==
    /\ Alive(w)
    /\ ~sig[w]
    /\ sig' = [sig EXCEPT ![w] = TRUE]
    /\ sigJob' = [sigJob EXCEPT ![w] = current_job[w]]
    /\ UNCHANGED <<storeVars, pc, ret, current_job, metadata, cand, job, rjob,
                   lshut, acceptsKeyword, autoVars, callVars, faults, now,
                   passRendered, exitWhy, released, lastClaim>>

\* ------------------------------------------------------- renewal thread
\* renewal_loop, lines 154-155, and renew_lease, lines 130-141: with a job
\* held, build the lease blob of that job and lease_data, reading the clock
\* for expires_at.  Without a job the thread sleeps.
RenewCheck(w) ==
    /\ Alive(w)
    /\ pc[w].renew = "r_loop"
    /\ ~lshut[w]
    /\ current_job[w] # NoJob
    /\ rjob' = [rjob EXCEPT ![w] = current_job[w]]
    /\ lease_data' = [lease_data EXCEPT ![w].renew = LeaseExpiry(now)]
    /\ Goto(w, "renew", "r_upload")
    /\ UNCHANGED <<storeVars, ret, current_job, metadata, cand, job, sig, lshut,
                   acceptsKeyword, autoVars, scanAt, relJob, faults, now, histVars>>

\* line 154: the loop ends once the leaser's shutdown event is set
RenewExit(w) ==
    /\ Alive(w)
    /\ pc[w].renew = "r_loop"
    /\ lshut[w]
    /\ Goto(w, "renew", "r_done")
    /\ UNCHANGED <<storeVars, ret, current_job, metadata, cand, job, rjob, sig,
                   lshut, acceptsKeyword, autoVars, callVars, faults, now, histVars>>

\* renew_lease, line 143: unconditional overwrite of the lease object at the
\* path built with the lease_data built, which also creates the object when
\* it is gone; or the upload raises.  With current_job cleared before line
\* 139 is reached, that line raises AttributeError and the handler's own log
\* line (148, self.current_job.job_id) raises it again: nothing catches that
\* one and the renewal thread ends.
RenewUpload(w) ==
    /\ Alive(w)
    /\ pc[w].renew = "r_upload"
    /\ \/ /\ lease' = [lease EXCEPT ![rjob[w]] =
                          [worker_id |-> w, expires_at |-> lease_data[w].renew]]
          /\ Goto(w, "renew", "r_after")
          /\ UNCHANGED <<faults, rjob>>
       \/ /\ current_job[w] = NoJob
          /\ rjob' = [rjob EXCEPT ![w] = NoJob]
          /\ Goto(w, "renew", "r_done")
          /\ UNCHANGED <<lease, faults>>
       \/ /\ faults > 0
          /\ faults' = faults - 1
          /\ Goto(w, "renew", "r_failed")
          /\ UNCHANGED <<lease, rjob>>
    /\ lease_data' = [lease_data EXCEPT ![w].renew = 0]
    /\ UNCHANGED <<status, clips, ret, current_job, metadata, cand, job, sig,
                   lshut, acceptsKeyword, autoVars, scanAt, relJob, now, histVars>>

\* renew_lease after its upload.  It returned: line 144 sets lease_expiry of
\* current_job and the thread sleeps (159).  It raised: the handler (148)
\* logs the job id, renew_lease returns False and renewal_loop calls
\* release_job (157-158).  Either line raises AttributeError when current_job
\* was cleared meanwhile, which ends the renewal thread.
RenewReturn(w) ==
    /\ Alive(w)
    /\ pc[w].renew \in {"r_after", "r_failed"}
    /\ rjob' = [rjob EXCEPT ![w] = NoJob]
    /\ \/ /\ current_job[w] = NoJob
          /\ Goto(w, "renew", "r_done")
       \/ /\ current_job[w] # NoJob
          /\ pc[w].renew = "r_after"
          /\ Goto(w, "renew", "r_loop")
       \/ /\ current_job[w] # NoJob
          /\ pc[w].renew = "r_failed"
          /\ Goto(w, "renew", "rel_enter")
    /\ UNCHANGED <<storeVars, ret, current_job, metadata, cand, job, sig, lshut,
                   acceptsKeyword, autoVars, callVars, faults, now, histVars>>

\* ----------------------------------------------------------- environment
\* the process is killed: nothing is released, its memory is gone
Crash(w) ==
    /\ Alive(w)
    /\ pc[w].main \notin {"start", "exit"}
    /\ pc' = [pc EXCEPT ![w] = [main |-> "crashed", renew |-> "r_done"]]
    /\ current_job' = [current_job EXCEPT ![w] = NoJob]
    /\ metadata' = [metadata EXCEPT ![w] = NoMetadata]
    /\ cand' = [cand EXCEPT ![w] = <<>>]
    /\ job' = [job EXCEPT ![w] = NoJob]
    /\ rjob' = [rjob EXCEPT ![w] = NoJob]
    /\ ret' = [ret EXCEPT ![w] = "finally"]
    /\ scanAt' = [scanAt EXCEPT ![w] = NoJob]
    /\ relJob' = [relJob EXCEPT ![w] = NoRelease]
    /\ lease_data' = [lease_data EXCEPT ![w] = NoData]
    /\ UNCHANGED <<storeVars, sig, lshut, acceptsKeyword, autoVars, faults, now,
                   histVars>>

\* time passes
Tick ==
    /\ now < MaxTicks * LEASE_RENEWAL_INTERVAL
    /\ now' = now + LEASE_RENEWAL_INTERVAL
    /\ UNCHANGED <<storeVars, pc, ret, current_job, metadata, cand, job, rjob,
                   sig, lshut, acceptsKeyword, autoVars, callVars, faults, histVars>>

\* ------------------------------------------------------------ specification
Release(w, t) ==
    \/ ReleaseEnter(w, t) \/ ReleaseDelete(w, t) \/ ReleaseRead(w, t)
    \/ ReleaseStatus(w, t) \/ ReleaseClear(w, t)

\* the main thread
MainStep(w) ==
    \/ Start(w) \/ LoopHead(w) \/ ScanRecord(w)
    \/ ClaimBuild(w) \/ ClaimLease(w) \/ ClaimStatus(w) \/ ClaimHold(w) \/ Check(w)
    \/ render_video_job(w)
    \/ Release(w, "main")
    \/ Shutdown(w) \/ Finally(w) \/ Exit(w)

\* the renewal thread
RenewStep(w) ==
    \/ RenewCheck(w) \/ RenewExit(w) \/ RenewUpload(w) \/ RenewReturn(w)
    \/ Release(w, "renew")

\* One submitted job and store errors, no signal
Next ==
    \/ \E w \in Workers : MainStep(w)
    \/ \E w \in Workers : RenewStep(w)

Spec == Init /\ [][Next]_vars

\* One submitted job, no store error, and time passing: leases expire while
\* their holders go on, renewing or not.
ClockInit == Scenario(NumWorkers, SoloJobs, 0) /\ NoClips /\ NoAutoscaler

ClockNext ==
    \/ \E w \in Workers : MainStep(w)
    \/ \E w \in Workers : RenewStep(w)
    \/ Tick

ClockSpec == ClockInit /\ [][ClockNext]_vars

\* Resuming: clips of the submitted job may already be in the store, and
\* shutdown signals arrive at any moment; no store error.
ResumeInit ==
    /\ Scenario(NumWorkers, SoloJobs, 0)
    /\ clips \in [Jobs -> SUBSET Units]
    /\ \A j \in Jobs : status[j].status = "absent" => clips[j] = {}
    /\ NoAutoscaler

ResumeNext ==
    \/ \E w \in Workers : MainStep(w)
    \/ \E w \in Workers : RenewStep(w)
    \/ \E w \in Workers : Signal(w)

ResumeSpec == ResumeInit /\ [][ResumeNext]_vars

\* The fleet at work: every job submitted, no store error, no signal.  The
\* operating system schedules every thread that can run, so each thread is
\* weakly fair.
LiveInit ==
    /\ Scenario(NumWorkers, NumJobs, 0)
    /\ NoClips
    /\ NoAutoscaler

LiveNext ==
    \/ \E w \in Workers : MainStep(w)
    \/ \E w \in Workers : RenewStep(w)

Fairness ==
    \A w \in Workers : WF_vars(MainStep(w)) /\ WF_vars(RenewStep(w))

LiveSpec == LiveInit /\ [][LiveNext]_vars /\ Fairness

\* A fleet with fewer jobs than workers, of which one worker may be killed
CrashInit ==
    /\ Scenario(NumWorkers, SoloJobs, 0)
    /\ NoClips
    /\ NoAutoscaler

CrashOne(w) ==
    /\ \A v \in Workers : pc[v].main # "crashed"
    /\ Crash(w)

CrashNext ==
    \/ LiveNext
    \/ \E w \in Workers : CrashOne(w)

CrashSpec == CrashInit /\ [][CrashNext]_vars /\ Fairness

\* The claim race: every started worker scans and goes through claim_job for
\* the candidates it saw, while the winners' renewal threads renew; nobody
\* releases and the store raises nothing.
RaceInit == Scenario(NumWorkers, NumJobs, 0) /\ NoClips /\ NoAutoscaler

RaceNext ==
    \/ \E w \in Workers : Start(w)
    \/ \E w \in Workers : LoopHead(w)
    \/ \E w \in Workers : ScanRecord(w)
    \/ \E w \in Workers : ClaimBuild(w)
    \/ \E w \in Workers : ClaimLease(w)
    \/ \E w \in Workers : ClaimStatus(w)
    \/ \E w \in Workers : ClaimHold(w)
    \/ \E w \in Workers : RenewCheck(w)
    \/ \E w \in Workers : RenewUpload(w)
    \/ \E w \in Workers : RenewReturn(w)

RaceSpec == RaceInit /\ [][RaceNext]_vars

\* ============================================================== autoscaler
\* gcs-video-automations-v1-backup/cloud-infrastructure/autoscaler.py: one
\* process, whose loop run_continuous runs one scaling cycle per
\* SCALING_INTERVAL.  It shares nothing with the workers but the bucket.

\* ------------------------------------------------------ program constants
SCALING_INTERVAL == 60
SCALE_DOWN_DELAY == 600
MIN_INSTANCES == 1
MAX_INSTANCES == 20
JOBS_PER_GPU == 200
\* GPU_EFFICIENCY = 0.5, in percent
GPU_EFFICIENCY_PERCENT == 50
\* the literals of calculate_desired_instances (lines 194, 198)
IDLE_QUEUE == 5
IDLE_UTIL == 30
IDLE_INSTANCES == 1
\* the literals of should_scale (lines 205, 209, 213)
SIGNIFICANT_DIFF == 2
HIGH_UTIL == 80
LOW_UTIL == 20
\* the literal of run_continuous (lines 297-298)
HISTORY_LIMIT == 1000

\* ---------------------------------------------------------------- bounds
\* cycles run_continuous makes in the scenarios that vary load and outages
MaxCycles == 2
\* cycles it makes beyond HISTORY_LIMIT in the long run under steady load
ExtraCycles == 2
\* objects under jobs/ at most
MaxRecords == 3
\* cycles in the run in which the policy functions are called
PolicyCycles == 12

\* --------------------------------------------------------------- inputs
\* pending job counts that get_job_counts reports
PendingValues == {0, 4, 5, 99, 100, 150, 250, 600, 1999, 4000}
\* GPU utilizations in percent that get_gpu_utilization reports
UtilValues == {0, 5, 19, 20, 25, 29, 30, 50, 80, 81, 85, 100}
\* instance counts: 0 is what get_current_size returns when it fails
SizeValues == 0..MAX_INSTANCES
\* the smaller choice of loads for whole cycles
CyclePending == {0, 150, 600, 4000}
CycleUtil == {5, 50, 85}
\* sizes the instance group has when the autoscaler starts
StartSizes == {1, 5, 20}
\* the load of the long run
SteadyPending == 600
SteadyUtil == 50
\* seconds the commands of one phase of a cycle take
Delays == {0, 6}
\* gcloud commands that fail: describe (get_current_size), resize (resize_mig)
Outages == SUBSET {"describe", "resize"}
\* what an object under jobs/ is: a status.json with one of these statuses,
\* a status.json whose text is not a JSON object (malformed), one whose
\* download raises (unreadable), or an object with another name (other)
CountedStatuses == {"pending", "running", "completed", "failed"}
RecordKinds == CountedStatuses \cup {"cancelled", "malformed", "unreadable", "other"}

Max(a, b) == IF a >= b THEN a ELSE b
Min(a, b) == IF a <= b THEN a ELSE b
Abs(a) == IF a >= 0 THEN a ELSE -a

\* ----------------------------------------------------------- JobQueueMonitor
\* line 61
ZeroCounts == [k \in CountedStatuses |-> 0]

\* a record that cannot be downloaded or parsed ends the whole scan
AbortsOnError(rec) == rec \in {"malformed", "unreadable"}

\* lines 67-74: the inner try catches every exception of one record, so no
\* record ends the loop
Aborts(rec) == FALSE

\* lines 66-72 for one listed object: count a status.json that is a JSON
\* object whose status is a key of counts
Tally(counts, rec) ==
    IF rec \in CountedStatuses
    THEN [counts EXCEPT ![rec] = @ + 1]
    ELSE counts

\* lines 65-74: the loop over the listed objects from the i-th on
RECURSIVE ScanFrom(_, _, _)
ScanFrom(recs, i, counts) ==
    IF i > Len(recs) THEN counts
    ELSE IF Aborts(recs[i]) THEN counts
    ELSE ScanFrom(recs, i + 1, Tally(counts, recs[i]))

\* lines 59-78; listed is the number of objects the listing yields before it
\* raises (all of them when it does not): the outer handler (75-76) returns
\* the counts made so far
get_job_counts(recs, listed) == ScanFrom(SubSeq(recs, 1, listed), 1, ZeroCounts)

\* get_job_queue_depth, lines 80-83
get_job_queue_depth(recs, listed) == get_job_counts(recs, listed)["pending"]

\* ------------------------------------------------------ IntelligentAutoscaler
\* line 188: int(pending_jobs / (JOBS_PER_GPU * GPU_EFFICIENCY)), never negative
base_instances(pending_jobs) ==
    Max(0, (pending_jobs * 100) \div (JOBS_PER_GPU * GPU_EFFICIENCY_PERCENT))

Unbounded(n) == n

\* line 191
Bounded(n) == Max(MIN_INSTANCES, Min(MAX_INSTANCES, n))

\* lines 196-197
IdleLongEnough ==
    \/ last_scale_down = NoTime
    \/ now - last_scale_down > SCALE_DOWN_DELAY

\* the target follows the last snapshot instead of the load
desired_from_history(pending_jobs, gpu_util) ==
    IF scaling_history = <<>>
    THEN Bounded(base_instances(pending_jobs))
    ELSE scaling_history[Len(scaling_history)].desired_instances

\* lines 185-200
calculate_desired_instances(pending_jobs, gpu_util) ==
    LET desired == Bounded(base_instances(pending_jobs)) IN
    IF pending_jobs < IDLE_QUEUE /\ gpu_util < IDLE_UTIL /\ IdleLongEnough
    THEN Min(desired, IDLE_INSTANCES)
    ELSE desired

\* only the difference rule
should_scale_on_diff(current, desired, gpu_util) ==
    Abs(current - desired) >= SIGNIFICANT_DIFF

\* lines 202-216
should_scale(current, desired, gpu_util) ==
    IF Abs(current - desired) >= SIGNIFICANT_DIFF THEN TRUE
    ELSE IF gpu_util > HIGH_UTIL /\ desired > current THEN TRUE
    ELSE IF gpu_util < LOW_UTIL /\ desired < current THEN TRUE
    ELSE FALSE

\* the stamp is written whatever resize_mig returned
StampAlways(success, old) == now

\* lines 228-229, 235-236: the stamp is written only when resize_mig succeeded
Stamp(success, old) == IF success THEN now ELSE old

KeepAll(h) == h

\* lines 297-298: keep only the last HISTORY_LIMIT entries
KeepLast(h) ==
    IF Len(h) > HISTORY_LIMIT
    THEN SubSeq(h, Len(h) - HISTORY_LIMIT + 1, Len(h))
    ELSE h


\* ------------------------------------------------------------ initial states
\* IntelligentAutoscaler.__init__, lines 178-183; the process will make n cycles
AutoInit(n) ==
    /\ last_scale_up = NoTime
    /\ last_scale_down = NoTime
    /\ scaling_history = <<>>
    /\ cyclesLeft = n
    /\ ncycles = 0
    /\ run = NoCycle
    /\ cycle = NoCycle
    /\ call = NoCall

\* no worker process runs and no job is in the bucket
NoWorkers == Scenario(0, 0, 0) /\ NoClips /\ acceptsKeyword

workerVars == <<storeVars, pc, ret, current_job, metadata, cand, job, rjob, sig,
                lshut, acceptsKeyword, callVars, faults, histVars>>

\* ------------------------------------------------------------------ actions
\* One turn of run_continuous's loop (lines 283-301) is a sequence of commands
\* to the bucket and to gcloud, each of which blocks; the fleet controller
\* starts or stops failing between any two of them.

\* run_scaling_cycle, lines 243-245: get_job_counts has returned
\* pending_jobs, get_current_size reads the size (0 when the describe command
\* fails, lines 102-107); elapsed is the time these commands and those of
\* get_gpu_utilization take
CycleStart(pending_jobs, elapsed) ==
    /\ cyclesLeft > 0
    /\ call = NoCall
    /\ run.step = "sleep"
    /\ run' = [NoCycle EXCEPT
                  !.step = "metrics",
                  !.pending = pending_jobs,
                  !.current = IF "describe" \in outage THEN 0 ELSE mig_size,
                  !.size = mig_size,
                  !.lsu = last_scale_up,
                  !.lsd = last_scale_down]
    /\ now' = now + elapsed
    /\ UNCHANGED <<workerVars, last_scale_up, last_scale_down, scaling_history,
                   mig_size, records, outage, cyclesLeft, ncycles, cycle, call>>

\* lines 246-256: get_gpu_utilization has returned gpu_util;
\* calculate_desired_instances, should_scale
CycleDecide(gpu_util) ==
    /\ run.step = "metrics"
    /\ LET desired_instances == calculate_desired_instances(run.pending, gpu_util)
           act == should_scale(run.current, desired_instances, gpu_util)
       IN run' = [run EXCEPT
                    !.step = IF act THEN "execute" ELSE "record",
                    !.util = gpu_util,
                    !.at = now,
                    !.desired = desired_instances,
                    !.act = act]
    /\ UNCHANGED <<workerVars, now, last_scale_up, last_scale_down, scaling_history,
                   mig_size, records, outage, cyclesLeft, ncycles, cycle, call>>

\* execute_scaling, lines 220-223: its own get_current_size; nothing to do
\* when the size read equals the desired one.  elapsed is the time this
\* command and those of resize_mig take.
CycleExecute(elapsed) ==
    /\ run.step = "execute"
    /\ LET current_size == IF "describe" \in outage THEN 0 ELSE mig_size
           issued == current_size # run.desired
       IN run' = [run EXCEPT
                    !.step = IF issued THEN "resize" ELSE "record",
                    !.current_size = current_size,
                    !.issued = issued]
    /\ now' = now + elapsed
    /\ UNCHANGED <<workerVars, last_scale_up, last_scale_down, scaling_history,
                   mig_size, records, outage, cyclesLeft, ncycles, cycle, call>>

\* lines 225-238 with resize_mig (109-129): the resize command, and the
\* stamp of the direction taken from the size execute_scaling read
CycleResize ==
    /\ run.step = "resize"
    /\ LET success == "resize" \notin outage
           up == run.desired > run.current_size
       IN
       /\ mig_size' = IF success THEN run.desired ELSE mig_size
       /\ last_scale_up' = IF up THEN Stamp(success, last_scale_up) ELSE last_scale_up
       /\ last_scale_down' =
             IF ~up THEN Stamp(success, last_scale_down) ELSE last_scale_down
       /\ run' = [run EXCEPT !.step = "record", !.success = success]
    /\ UNCHANGED <<workerVars, now, scaling_history, records, outage,
                   cyclesLeft, ncycles, cycle, call>>

\* run_continuous, lines 287-301: append the snapshot, keep the last
\* HISTORY_LIMIT, sleep
CycleRecord ==
    /\ run.step = "record"
    /\ scaling_history' = KeepLast(Append(scaling_history,
          [timestamp |-> now,
           pending_jobs |-> run.pending,
           current_instances |-> run.current,
           desired_instances |-> run.desired,
           gpu_utilization |-> run.util]))
    /\ cycle' = [run EXCEPT !.step = "sleep"]
    /\ run' = NoCycle
    /\ now' = now + SCALING_INTERVAL
    /\ cyclesLeft' = cyclesLeft - 1
    /\ ncycles' = ncycles + 1
    /\ UNCHANGED <<workerVars, last_scale_up, last_scale_down, mig_size, records,
                   outage, call>>

\* the cycle in progress goes on: commands take no time, load as given
CycleStep(pending_jobs, gpu_util) ==
    \/ CycleStart(pending_jobs, 0)
    \/ CycleDecide(gpu_util)
    \/ CycleExecute(0)
    \/ CycleResize
    \/ CycleRecord

\* a gcloud command starts or stops failing
FleetChange ==
    /\ cyclesLeft > 0
    /\ \E o \in Outages : o # outage /\ outage' = o
    /\ UNCHANGED <<workerVars, now, last_scale_up, last_scale_down, scaling_history,
                   mig_size, records, cyclesLeft, ncycles, run, cycle, call>>

\* a call of calculate_desired_instances on the autoscaler as it is
CallDesired(pending_jobs, gpu_util) ==
    /\ call = NoCall
    /\ run.step = "sleep"
    /\ call' = [fn |-> "calculate_desired_instances",
                pending |-> pending_jobs, util |-> gpu_util,
                out |-> calculate_desired_instances(pending_jobs, gpu_util)]
    /\ UNCHANGED <<workerVars, now, last_scale_up, last_scale_down, scaling_history,
                   mig_size, records, outage, cyclesLeft, ncycles, run, cycle>>

\* a call of should_scale
CallShould(current, desired, gpu_util) ==
    /\ call = NoCall
    /\ run.step = "sleep"
    /\ call' = [fn |-> "should_scale",
                current |-> current, desired |-> desired, util |-> gpu_util,
                out |-> should_scale(current, desired, gpu_util)]
    /\ UNCHANGED <<workerVars, now, last_scale_up, last_scale_down, scaling_history,
                   mig_size, records, outage, cyclesLeft, ncycles, run, cycle>>

\* a call of get_job_counts on the objects in the bucket; the listing yields
\* listed of them before it raises, all of them when it does not
CallCounts(listed) ==
    /\ call = NoCall
    /\ run.step = "sleep"
    /\ call' = [fn |-> "get_job_counts", listed |-> listed,
                out |-> get_job_counts(records, listed)]
    /\ UNCHANGED <<workerVars, now, last_scale_up, last_scale_down, scaling_history,
                   mig_size, records, outage, cyclesLeft, ncycles, run, cycle>>

\* a call of get_job_queue_depth
CallDepth(listed) ==
    /\ call = NoCall
    /\ run.step = "sleep"
    /\ call' = [fn |-> "get_job_queue_depth", listed |-> listed,
                out |-> get_job_queue_depth(records, listed)]
    /\ UNCHANGED <<workerVars, now, last_scale_up, last_scale_down, scaling_history,
                   mig_size, records, outage, cyclesLeft, ncycles, run, cycle>>

\* the call has returned
Return ==
    /\ call # NoCall
    /\ call' = NoCall
    /\ UNCHANGED <<workerVars, now, last_scale_up, last_scale_down, scaling_history,
                   mig_size, records, outage, cyclesLeft, ncycles, run, cycle>>

\* ----------------------------------------------------------- specifications
\* The autoscaler under changing load and outages of the fleet controller
ScaleInit ==
    /\ NoWorkers
    /\ AutoInit(MaxCycles)
    /\ mig_size \in StartSizes
    /\ records = <<>>
    /\ outage = {}

ScaleNext ==
    \/ \E p \in CyclePending : \E d \in Delays : CycleStart(p, d)
    \/ \E u \in CycleUtil : CycleDecide(u)
    \/ \E d \in Delays : CycleExecute(d)
    \/ CycleResize
    \/ CycleRecord
    \/ FleetChange

ScaleSpec == ScaleInit /\ [][ScaleNext]_vars

\* The long run: steady load, more cycles than the history keeps
HistoryInit ==
    /\ NoWorkers
    /\ AutoInit(HISTORY_LIMIT + ExtraCycles)
    /\ mig_size \in StartSizes
    /\ records = <<>>
    /\ outage \in Outages

HistoryNext == CycleStep(SteadyPending, SteadyUtil)

HistorySpec == HistoryInit /\ [][HistoryNext]_vars

\* The policy functions, called at any moment of a run in which the fleet is
\* scaled down once and time passes beyond SCALE_DOWN_DELAY
PolicyInit ==
    /\ NoWorkers
    /\ AutoInit(PolicyCycles)
    /\ mig_size = MAX_INSTANCES
    /\ records = <<>>
    /\ outage = {}

PolicyNext ==
    \/ CycleStep(SteadyPending, SteadyUtil)
    \/ \E p \in PendingValues : \E u \in UtilValues : CallDesired(p, u)
    \/ \E c \in SizeValues : \E d \in SizeValues : \E u \in UtilValues :
          CallShould(c, d, u)
    \/ Return

PolicySpec == PolicyInit /\ [][PolicyNext]_vars

\* The queue monitor over every bucket content of up to MaxRecords objects
RECURSIVE SeqsUpTo(_)
SeqsUpTo(n) ==
    IF n = 0 THEN {<<>>}
    ELSE SeqsUpTo(n - 1) \cup [1..n -> RecordKinds]

QueueInit ==
    /\ NoWorkers
    /\ AutoInit(0)
    /\ mig_size = MIN_INSTANCES
    /\ records \in SeqsUpTo(MaxRecords)
    /\ outage = {}

QueueNext ==
    \/ \E n \in 0..Len(records) : CallCounts(n)
    \/ \E n \in 0..Len(records) : CallDepth(n)
    \/ Return

QueueSpec == QueueInit /\ [][QueueNext]_vars

\* The fleet draining: an almost empty queue at every utilization, from every
\* size of the instance group
IdleCycles == 2
IdlePending == {0, 4, 5}

IdleInit ==
    /\ NoWorkers
    /\ AutoInit(IdleCycles)
    /\ mig_size \in MIN_INSTANCES..MAX_INSTANCES
    /\ records = <<>>
    /\ outage = {}

IdleNext == \E p \in IdlePending : \E u \in UtilValues : CycleStep(p, u)

IdleSpec == IdleInit /\ [][IdleNext]_vars

\* ------------------------------------------------------------------ claims
\* worker w is inside a claim_job call on job j
InClaim(w, j) ==
    /\ pc[w].main \in {"claim", "claim_lease", "claim_status", "claim_hold"}
    /\ cand[w] # <<>>
    /\ Head(cand[w]) = j

Returned(j) == {w \in Workers : lastClaim[w][j].res # "none"}
Winners(j) == {w \in Workers : lastClaim[w][j].res = "T"}

\* C2: of the claim_job calls that race for a job with no lease object,
\* exactly one returns true and every other returns false: never two winners,
\* and one winner once every call on the job has returned.
C2_ExactlyOneClaimWins ==
    \A j \in Jobs :
        /\ Cardinality(Winners(j)) <= 1
        /\ (Returned(j) # {} /\ \A w \in Workers : ~InClaim(w, j))
              => Cardinality(Winners(j)) = 1

\* two calls on the same job have returned, one of them true
C2_Witness ==
    \E j \in Jobs :
        /\ Cardinality(Returned(j)) >= 2
        /\ Winners(j) # {}
        /\ \A w \in Workers : ~InClaim(w, j)

\* C3: a claim_job call that finds the job's lease object past its expires_at
\* and written by another worker succeeds, although that worker is alive and
\* has not released the job.
C3_ExpiredLeaseClaimable ==
    \A w \in Workers : \A j \in Jobs :
        lastClaim[w][j].expired => lastClaim[w][j].res = "T"

\* C4: once a release_job of a job has returned and nobody has claimed the
\* job since, a claim_job on it succeeds: no lease object survives the release.
C4_ClaimableAfterRelease ==
    \A j \in Jobs : released[j] => CreateAllowed(j)

\* worker w was killed after it claimed job j and before it released it
CrashedHolding(w, j) ==
    /\ pc[w].main = "crashed"
    /\ lease[j] # NoLease
    /\ lease[j].worker_id = w
    /\ status[j] = [status |-> "running", worker_id |-> w]

\* C6: a job whose holder was killed is eventually held by another worker,
\* as long as a worker is running.
C6_CrashedJobReclaimed ==
    \A w \in Workers : \A j \in Jobs :
        CrashedHolding(w, j) ~>
            \/ \E v \in Workers \ {w} : current_job[v] = j
            \/ \A v \in Workers : ~Alive(v)

\* C7: every submitted job eventually has status completed and keeps it.
C7_AllJobsComplete ==
    \A j \in Jobs :
        status[j].status # "absent" => <>[](status[j].status = "completed")

\* C9: a render_video_job call on a job of which some clips are in the store,
\* which ends otherwise than by a shutdown signal or a store error, has
\* rendered exactly the units that had no clip: each of them, and none that
\* had one.
C9_RendersExactlyMissing ==
    \A w \in Workers :
        (exitWhy[w].why \in {"ok", "error"} /\ clips[exitWhy[w].job] # {}) =>
            passRendered[w] = Units \ clips[exitWhy[w].job]

Claimable(j) == status[j].status = "pending" /\ CreateAllowed(j)

\* a worker other than w took the job after w let go of it
TakenByOther(w, j) ==
    \/ status[j].worker_id \notin {0, w}
    \/ lease[j] # NoLease /\ lease[j].worker_id # w

\* C12: when a worker that held a job at the moment its shutdown signal
\* arrived has exited, that job is pending with no lease object, unless
\* another worker has taken it since.
C12_ShutdownReleasesJob ==
    \A w \in Workers :
        (pc[w].main = "done" /\ sigJob[w] # NoJob) =>
            \/ Claimable(sigJob[w])
            \/ TakenByOther(w, sigJob[w])

\* C13: every value calculate_desired_instances returns lies between
\* MIN_INSTANCES and MAX_INSTANCES, and for pending 0 and utilization 5 it
\* returns 1.
C13_DesiredWithinBounds ==
    call.fn = "calculate_desired_instances" =>
        /\ MIN_INSTANCES <= call.out
        /\ call.out <= MAX_INSTANCES
        /\ (call.pending = 0 /\ call.util = 5) => call.out = 1

\* the call with pending 0 and utilization 5 has returned 1, long after the
\* last scale-down
C13_Witness ==
    /\ call.fn = "calculate_desired_instances"
    /\ call.pending = 0
    /\ call.util = 5
    /\ call.out = 1
    /\ last_scale_down # NoTime
    /\ now - last_scale_down > SCALE_DOWN_DELAY

\* C14: when the low-load clause does not apply, calculate_desired_instances
\* returns the quotient pending / (JOBS_PER_GPU * GPU_EFFICIENCY) rounded up
\* and clamped to MIN_INSTANCES..MAX_INSTANCES.
C14_DesiredIsCeiling ==
    (/\ call.fn = "calculate_desired_instances"
     /\ ~(call.pending < IDLE_QUEUE /\ call.util < IDLE_UTIL /\ IdleLongEnough))
    => LET per == JOBS_PER_GPU * GPU_EFFICIENCY_PERCENT
           ceiling == (call.pending * 100 + per - 1) \div per
       IN call.out = Max(MIN_INSTANCES, Min(MAX_INSTANCES, ceiling))

\* C15: should_scale returns true exactly when the sizes differ by 2 or more,
\* or utilization is above the high threshold and desired > current, or
\* utilization is below the low threshold and desired < current.
C15_ShouldScaleIff ==
    call.fn = "should_scale" =>
        (call.out <=>
            \/ Abs(call.current - call.desired) >= 2
            \/ call.util > HIGH_UTIL /\ call.desired > call.current
            \/ call.util < LOW_UTIL /\ call.desired < call.current)

\* should_scale(5, 6, 85) has returned true
C15_Witness ==
    /\ call.fn = "should_scale"
    /\ call.current = 5
    /\ call.desired = 6
    /\ call.util = 85
    /\ call.out

\* C16: a cycle that runs less than SCALE_DOWN_DELAY after the last scale-down
\* issues no resize to a size below the size it read.
C16_NoScaleDownInCooldown ==
    (/\ cycle.issued
     /\ cycle.lsd # NoTime
     /\ cycle.at - cycle.lsd < SCALE_DOWN_DELAY)
    => ~(cycle.desired < cycle.current_size)

\* C17: the history holds one snapshot per completed cycle up to
\* HISTORY_LIMIT, and they are those of the most recent cycles in order.
C17_HistoryBounded ==
    LET n == Len(scaling_history) IN
    /\ n = Min(ncycles, HISTORY_LIMIT)
    /\ \A i \in 1..n :
          scaling_history[i].timestamp = (ncycles - n + i - 1) * SCALING_INTERVAL

\* more cycles than the history keeps have run, each issuing a resize that failed
C17_Witness ==
    /\ ncycles > HISTORY_LIMIT
    /\ Len(scaling_history) = HISTORY_LIMIT
    /\ cycle.issued
    /\ ~cycle.success
    /\ last_scale_down = NoTime

\* C18: what a cycle decides is determined by the pending count, the
\* utilization, the size it read, last_scale_down and the time of the cycle;
\* the scaling history plays no part.
C18_DecisionFromInputs ==
    ncycles > 0 =>
        LET idle == /\ cycle.pending < IDLE_QUEUE
                    /\ cycle.util < IDLE_UTIL
                    /\ \/ cycle.lsd = NoTime
                       \/ cycle.at - cycle.lsd > SCALE_DOWN_DELAY
            plain == Bounded(base_instances(cycle.pending))
        IN
        /\ cycle.desired = IF idle THEN Min(plain, IDLE_INSTANCES) ELSE plain
        /\ cycle.act <=>
              \/ Abs(cycle.current - cycle.desired) >= SIGNIFICANT_DIFF
              \/ cycle.util > HIGH_UTIL /\ cycle.desired > cycle.current
              \/ cycle.util < LOW_UTIL /\ cycle.desired < cycle.current

\* a cycle has decided after earlier cycles left snapshots with another desired size
C18_Witness ==
    /\ ncycles >= 2
    /\ Len(scaling_history) >= 2
    /\ scaling_history[Len(scaling_history) - 1].desired_instances # cycle.desired
    /\ cycle.act

\* C19: a cycle whose resize fails completes, leaves last_scale_up and
\* last_scale_down as they were, and the next cycle on the same readings
\* issues the resize again.
C19_FailedResizeRetried ==
    [][ncycles' = ncycles + 1 =>
          /\ (cycle'.issued /\ ~cycle'.success) =>
                /\ last_scale_up' = cycle'.lsu
                /\ last_scale_down' = cycle'.lsd
                /\ scaling_history' # scaling_history
          /\ (/\ cycle.issued /\ ~cycle.success
              /\ cycle'.pending = cycle.pending
              /\ cycle'.util = cycle.util
              /\ cycle'.current = cycle.current
              /\ cycle'.current_size = cycle.current_size)
             => cycle'.issued /\ cycle'.desired = cycle.desired]_vars

\* a resize has failed twice in a row on the same readings
C19_Witness ==
    /\ ncycles >= 2
    /\ cycle.issued
    /\ ~cycle.success
    /\ last_scale_up = NoTime
    /\ last_scale_down = NoTime
    /\ LET prev == scaling_history[Len(scaling_history) - 1] IN
          /\ prev.pending_jobs = cycle.pending
          /\ prev.gpu_utilization = cycle.util
          /\ prev.current_instances = cycle.current
          /\ prev.desired_instances = cycle.desired

\* the objects of the bucket that are status records with status k
WithStatus(k) == {i \in 1..Len(records) : records[i] = k}

\* C20: when the listing does not fail, get_job_counts returns for each of
\* its statuses the number of readable records with that status, whatever
\* malformed or unreadable records lie among them, and get_job_queue_depth
\* returns the number of pending ones.
C20_CountsEveryReadableRecord ==
    /\ (call.fn = "get_job_counts" /\ call.listed = Len(records)) =>
          \A k \in CountedStatuses : call.out[k] = Cardinality(WithStatus(k))
    /\ (call.fn = "get_job_queue_depth" /\ call.listed = Len(records)) =>
          call.out = Cardinality(WithStatus("pending"))

\* a scan has counted a pending record listed after a malformed and an
\* unreadable one
C20_Witness ==
    /\ call.fn = "get_job_counts"
    /\ call.listed = Len(records)
    /\ records = <<"malformed", "unreadable", "pending">>
    /\ call.out["pending"] = 1

\* C23: a worker leaves its main loop for shutdown() only when its shutdown
\* signal is set: a render_video_job call that an error in rendering the
\* held job ended (handler of lines 361-375, return False) does not end the
\* loop.
C23_LoopSurvivesJobError ==
    \A w \in Workers :
        (pc[w].main = "shutdown" /\ exitWhy[w].why = "error") => sig[w]

\* C24: a claim_job call that returns False because the lease object exists
\* leaves status.json of the job, the worker's current_job and the metadata
\* it holds exactly as they were.
C24_LoserLeavesRecord ==
    [][\A w \in Workers : \A j \in Jobs :
          (/\ lastClaim'[w][j] # lastClaim[w][j]
           /\ lastClaim'[w][j].res = "F"
           /\ ~lastClaim'[w][j].fault)
          => /\ status'[j] = status[j]
             /\ current_job'[w] = current_job[w]
             /\ metadata'[w] = metadata[w]]_vars

\* a call has lost the race for a job that another worker holds as running
C24_Witness ==
    \E w \in Workers : \E j \in Jobs :
        /\ lastClaim[w][j].res = "F"
        /\ ~lastClaim[w][j].fault
        /\ lease[j] # NoLease
        /\ lease[j].worker_id # w
        /\ status[j] = [status |-> "running", worker_id |-> lease[j].worker_id]
        /\ current_job[w] = NoJob

\* C25: once a worker's release of a job and the renewal attempt that ran
\* beside it are both over, the job has no lease object with that worker's
\* id: a lease that names a worker belongs to a job the worker holds, is
\* claiming, or is still renewing.
C25_RenewalRaceBenign ==
    \A w \in Workers : \A j \in Jobs :
        (lease[j] # NoLease /\ lease[j].worker_id = w) =>
            \/ current_job[w] = j
            \/ pc[w].main \in {"claim_status", "claim_hold"} /\ Head(cand[w]) = j
            \/ pc[w].renew \in {"r_upload", "r_after", "r_failed"}

\* worker w calls claim_job (run() line 393)
CallsClaim(w) ==
    /\ pc[w].main = "claim"
    /\ cand[w] # <<>>
    /\ pc'[w].main = "claim_lease"

\* C27: a worker whose shutdown event is set calls claim_job no more.
C27_NoClaimAfterSignal ==
    [][\A w \in Workers : sig[w] => ~CallsClaim(w)]_vars

\* C28: a release_job call on a held job whose lease object is not in the
\* store, and which no store error hits, goes on to rewrite status.json and
\* to clear current_job: it does not return at the delete.
C28_ReleaseWithoutLease ==
    [][\A w \in Workers : \A t \in Threads :
          (/\ pc[w][t] = "rel_delete"
           /\ pc'[w][t] # "rel_delete"
           /\ Alive(w) /\ pc'[w].main # "crashed"
           /\ current_job[w] # NoJob
           /\ lease[relJob[w][t]] = NoLease
           /\ faults' = faults)
          => pc'[w][t] = "rel_read"]_vars

\* C30: after a claim_job call of a worker on a job has returned False on a
\* store error, the job carries no lease object with that worker's id.
C30_FailedClaimLeavesNoLease ==
    \A w \in Workers : \A j \in Jobs :
        (lastClaim[w][j].res = "F" /\ lastClaim[w][j].fault) =>
            ~(lease[j] # NoLease /\ lease[j].worker_id = w)

\* C29: a cycle in which the low-load clause of calculate_desired_instances
\* holds (pending below its queue threshold, utilization below its
\* utilization threshold) and whose desired size is below the size it read
\* decides to act, also when the two sizes differ by 1.
C29_LowLoadActs ==
    (/\ ncycles > 0
     /\ cycle.pending < IDLE_QUEUE
     /\ cycle.util < IDLE_UTIL
     /\ cycle.desired < cycle.current)
    => cycle.act

====
